---- MODULE Spec2Model ----
(***************************************************************************)
(* Model of pkg/webhook of csi-gcs: the driverStorageClassesSet cache      *)
(* (storageclasses.go), the storage-class informer callbacks registered in *)
(* NewServer and the admission handler handleInjectDriverReadySelector     *)
(* (server.go).                                                            *)
(*                                                                         *)
(* Two tasks run concurrently: the informer goroutine started at           *)
(* server.go:120 ("the watcher"), which delivers one event at a time and   *)
(* runs the callback's add/remove calls, and a request handler goroutine.  *)
(* Request handlers share nothing with one another: they never write the   *)
(* map, and each call of podHasCsiGCSVolume receives its own copy of the   *)
(* set struct (server.go:167), so one handler next to the watcher shows    *)
(* every interaction the program has.                                      *)
(*                                                                         *)
(* Storage class names are modelled as the integers 1..NumClasses; the     *)
(* empty-string key "" of server.go:84 is DefaultClass.                    *)
(*                                                                         *)
(* Spec is the whole program; FairSpec adds the scheduler's fairness;      *)
(* EventSpec is the watcher alone, remembering the keys each event found;  *)
(* DupSpec delivers the add and the delete of one class twice.             *)
(***************************************************************************)
EXTENDS Integers, Sequences, FiniteSets, TLC

\* ------------------------------------------------------------------ bounds
NumClasses == 1          \* storage class names in the cluster
MaxVolumes == 2          \* volumes of a submitted pod

\* --------------------------------------------------------------- constants
DefaultClass == 0        \* the "" key: the default storage class is driver-backed
ClassNames   == 1..NumClasses
Keys         == ClassNames \cup {DefaultClass}

driverName       == "gcs.csi.ofek.dev"
OtherProvisioner == "other.csi.example"
Provisioners     == {driverName, OtherProvisioner}

driverReadySelectorPodPatch == "add /spec/nodeSelector/<driver-ready-label> true"
NoPatch      == ""
JSONPatch    == "JSONPatch"
NoPatchType  == ""

VARIABLES
    classes,   \* s.classes: the keys of the map
    m,         \* s.m: the RWMutex of h.driverStorageClasses, [w, r]
    store,     \* the informer's store: the last observed object of each class
    wpc,       \* the watcher's position inside add/remove
    wops,      \* the add/remove calls the running callback still has to make
    lastAdd,   \* the keys whose last call on the set was an add (history)
    crashed,   \* the runtime threw "concurrent map read and map write"
    pc,        \* the request handler's position
    req,       \* the request being handled
    vi,        \* podHasCsiGCSVolume: index of the volume under inspection
    key,       \* has: the className argument
    cs,        \* the mutex of podHasCsiGCSVolume's copy of the set
    ret,       \* has: the value returned
    obs,       \* what the handler did for this request (history)
    resp,      \* the response written
    ev,        \* the last event handled and the keys before it (history)
    dup        \* a duplicated delivery: the object, the keys at its start, progress

vars == <<classes, m, store, wpc, wops, lastAdd, crashed,
          pc, req, vi, key, cs, ret, obs, resp, ev, dup>>

watcherVars == <<store, wpc, wops, lastAdd>>
handlerVars == <<pc, req, vi, key, cs, ret, obs, resp>>
seqVars == <<ev, dup>>

\* ------------------------------------------------- sync.RWMutex, as used
\* A mutex value is [w |-> a writer holds it, r |-> number of readers].
FreeMutex == [w |-> FALSE, r |-> 0]

CanLock(mu)  == ~mu.w /\ mu.r = 0
Lock(mu)     == [mu EXCEPT !.w = TRUE]
Unlock(mu)   == [mu EXCEPT !.w = FALSE]
CanRLock(mu) == ~mu.w
RLock(mu)    == [mu EXCEPT !.r = @ + 1]
RUnlock(mu)  == [mu EXCEPT !.r = @ - 1]

\* ------------------------------------------- driverStorageClassesSet
has(cls, className) == className \in cls

add(cls, className) == cls \cup {className}

\* Mutant: removing a key that is absent inserts it.
remove_toggle(cls, className) ==
    IF className \in cls THEN cls \ {className} ELSE cls \cup {className}

\* Mutant: the delete is lost.
remove_lost(cls, className) == cls

remove(cls, className) == cls \ {className}

\* One call on the set made by an informer callback.
SetCall(o, className) == [op |-> o, className |-> className]

ApplyCall(cls, c) ==
    IF c.op = "add" THEN add(cls, c.className) ELSE remove(cls, c.className)

\* --------------------------------------------- informer callbacks
\* An object handed to a callback: ok is the outcome of the type assertion
\* obj.(*storagev1.StorageClass); isDefault is
\* Annotations["storageclass.kubernetes.io/is-default-class"] == "true".
Objects == [name : ClassNames, provisioner : Provisioners,
            isDefault : BOOLEAN, ok : BOOLEAN]

\* Mutant: the annotation is not looked at.
AddFunc_nameOnly(stc) ==
    IF ~stc.ok THEN <<>>
    ELSE IF stc.provisioner = driverName
         THEN <<SetCall("add", stc.name)>>
         ELSE <<>>

AddFunc(stc) ==
    IF ~stc.ok THEN <<>>
    ELSE IF stc.provisioner = driverName
         THEN <<SetCall("add", stc.name)>>
              \o (IF stc.isDefault THEN <<SetCall("add", DefaultClass)>> ELSE <<>>)
         ELSE <<>>

\* Mutant: the default-class key is left behind.
DeleteFunc_nameOnly(stc) ==
    IF ~stc.ok THEN <<>>
    ELSE IF stc.provisioner = driverName
         THEN <<SetCall("remove", stc.name)>>
         ELSE <<>>

DeleteFunc(stc) ==
    IF ~stc.ok THEN <<>>
    ELSE IF stc.provisioner = driverName
         THEN <<SetCall("remove", stc.name)>>
              \o (IF stc.isDefault THEN <<SetCall("remove", DefaultClass)>> ELSE <<>>)
         ELSE <<>>

\* Mutant: a class that moved to another provisioner is evicted.
UpdateFunc_evicts(newstc) ==
    IF ~newstc.ok THEN <<>>
    ELSE IF newstc.provisioner = driverName
         THEN <<SetCall("add", newstc.name)>>
              \o (IF newstc.isDefault THEN <<SetCall("add", DefaultClass)>> ELSE <<>>)
         ELSE <<SetCall("remove", newstc.name)>>

UpdateFunc(newstc) ==
    IF ~newstc.ok THEN <<>>
    ELSE IF newstc.provisioner = driverName
         THEN <<SetCall("add", newstc.name)>>
              \o (IF newstc.isDefault THEN <<SetCall("add", DefaultClass)>> ELSE <<>>)
         ELSE <<>>

\* The callback the informer runs for an event of the given kind.
Callback(kind, stc) ==
    CASE kind = "add" -> AddFunc(stc)
      [] kind = "update" -> UpdateFunc(stc)
      [] kind = "delete" -> DeleteFunc(stc)

\* The keys after the calls of one callback were made in order on cls.
RECURSIVE Run(_, _)
Run(cls, calls) ==
    IF calls = <<>> THEN cls
    ELSE Run(ApplyCall(cls, Head(calls)), Tail(calls))

\* ------------------------------------------------ the informer's store
\* The last object the informer observed for a class name.
Absent == [present |-> FALSE, provisioner |-> OtherProvisioner, isDefault |-> FALSE]
Stored(p, d) == [present |-> TRUE, provisioner |-> p, isDefault |-> d]

WatcherIdle == wpc = "idle" /\ wops = <<>>

\* A storage class appears: AddFunc runs on it.
WatchAdd ==
    /\ ~crashed /\ WatcherIdle
    /\ \E n \in ClassNames, p \in Provisioners, d \in BOOLEAN :
         /\ ~store[n].present
         /\ store' = [store EXCEPT ![n] = Stored(p, d)]
         /\ wops' = AddFunc([name |-> n, provisioner |-> p, isDefault |-> d, ok |-> TRUE])
    /\ UNCHANGED <<classes, m, wpc, lastAdd, crashed>>
    /\ UNCHANGED handlerVars /\ UNCHANGED seqVars

\* A known storage class is observed again (a change, a resync, or a relist
\* that finds the name with another object): UpdateFunc runs on the new object.
WatchUpdate ==
    /\ ~crashed /\ WatcherIdle
    /\ \E n \in ClassNames, p \in Provisioners, d \in BOOLEAN :
         /\ store[n].present
         /\ store' = [store EXCEPT ![n] = Stored(p, d)]
         /\ wops' = UpdateFunc([name |-> n, provisioner |-> p, isDefault |-> d, ok |-> TRUE])
    /\ UNCHANGED <<classes, m, wpc, lastAdd, crashed>>
    /\ UNCHANGED handlerVars /\ UNCHANGED seqVars

\* A known storage class is gone: DeleteFunc runs on its last known state, or
\* on a cache.DeletedFinalStateUnknown tombstone (ok = FALSE) when the
\* deletion was only noticed by a relist.
WatchDelete ==
    /\ ~crashed /\ WatcherIdle
    /\ \E n \in ClassNames, k \in BOOLEAN :
         /\ store[n].present
         /\ store' = [store EXCEPT ![n] = Absent]
         /\ wops' = DeleteFunc([name |-> n, provisioner |-> store[n].provisioner,
                                isDefault |-> store[n].isDefault, ok |-> k])
    /\ UNCHANGED <<classes, m, wpc, lastAdd, crashed>>
    /\ UNCHANGED handlerVars /\ UNCHANGED seqVars

\* add/remove: s.m.Lock() returns and the map assignment or delete starts.
SetLock ==
    /\ ~crashed /\ wpc = "idle" /\ wops # <<>>
    /\ CanLock(m)
    /\ m' = Lock(m)
    /\ wpc' = "writing"
    /\ lastAdd' = IF Head(wops).op = "add" THEN lastAdd \cup {Head(wops).className}
                  ELSE lastAdd \ {Head(wops).className}
    /\ UNCHANGED <<classes, store, wops, crashed>>
    /\ UNCHANGED handlerVars /\ UNCHANGED seqVars

\* add/remove: the map write completes and the deferred s.m.Unlock() runs.
SetUnlock ==
    /\ ~crashed /\ wpc = "writing"
    /\ classes' = ApplyCall(classes, Head(wops))
    /\ m' = Unlock(m)
    /\ wops' = Tail(wops)
    /\ wpc' = "idle"
    /\ UNCHANGED <<store, lastAdd, crashed>>
    /\ UNCHANGED handlerVars /\ UNCHANGED seqVars

Watcher == WatchAdd \/ WatchUpdate \/ WatchDelete \/ SetLock \/ SetUnlock

\* ------------------------------------------------------- HTTP boundary
StatusOK                  == 200
StatusBadRequest          == 400
StatusMethodNotAllowed    == 405
StatusInternalServerError == 500

Volumes == [type : {"CSI"}, driver : Provisioners] \cup [type : {"PVC"}, driver : {""}]

VolumeLists == UNION {[1..n -> Volumes] : n \in 0..MaxVolumes}

\* ready: where the pod already names the driver-ready label, if anywhere.
Pods == [ready : {"none", "nodeSelector", "affinity"}, volumes : VolumeLists]

EmptyPod == [ready |-> "none", volumes |-> <<>>]

\* The two routes registered on the mux (server.go:64-65).
MutatePath  == "/mutate-inject-driver-ready-selector"
HealthzPath == "/healthz"

\* The review's apiVersion and kind, and the request's UID: two reviews that
\* differ in both.
ReviewV1 == [typeMeta |-> "admission.k8s.io/v1 AdmissionReview", uid |-> "uid-a"]
ReviewV1beta1 == [typeMeta |-> "admission.k8s.io/v1beta1 AdmissionReview", uid |-> "uid-b"]
Envelopes == {ReviewV1, ReviewV1beta1}
NoEnvelope == [typeMeta |-> "", uid |-> ""]

\* path: the route; method: the HTTP method; bodyOK: the body decodes as an AdmissionReview;
\* hasRequest: the review has a request member; operation: its operation;
\* podOK: request.object.raw decodes as a v1/Pod; env: the review's type
\* metadata and the request's UID.
WellFormed(r) == r.path = MutatePath /\ r.method = "POST" /\ r.bodyOK /\ r.hasRequest
                 /\ r.operation = "CREATE" /\ r.podOK

\* The requests that are turned away or abort before the pod is looked at;
\* they carry no pod and no envelope of interest.
BareRequests == [path : {MutatePath},
                 method : {"POST", "GET"}, bodyOK : BOOLEAN, hasRequest : BOOLEAN,
                 operation : {"CREATE", "UPDATE"}, podOK : BOOLEAN,
                 pod : {EmptyPod}, env : {NoEnvelope}]

\* The create reviews that reach the decision.
CreateReviews(pods, env) ==
    [path : {MutatePath}, method : {"POST"}, bodyOK : {TRUE}, hasRequest : {TRUE},
     operation : {"CREATE"}, podOK : {TRUE}, pod : pods, env : {env}]

\* Every pod is submitted in a v1 review; the pods with at most one volume,
\* which reach every outcome of the decision, also in a v1beta1 review.
Requests ==
    CreateReviews(Pods, ReviewV1)
      \cup CreateReviews({p \in Pods : Len(p.volumes) <= 1}, ReviewV1beta1)
      \cup {r \in BareRequests : ~WellFormed(r)}

\* A liveness probe: handleHealthz looks at nothing of the request.
HealthRequests == [path : {HealthzPath}, method : {"GET", "POST"}, bodyOK : {FALSE},
                   hasRequest : {FALSE}, operation : {""}, podOK : {FALSE},
                   pod : {EmptyPod}, env : {NoEnvelope}]

NoRequest == [path |-> "", method |-> "", bodyOK |-> FALSE, hasRequest |-> FALSE,
              operation |-> "", podOK |-> FALSE, pod |-> EmptyPod, env |-> NoEnvelope]

\* What the handler wrote: review says whether an AdmissionReview was encoded.
Written(code) == [status |-> code, review |-> FALSE, TypeMeta |-> "", UID |-> "",
                  Allowed |-> FALSE, PatchType |-> NoPatchType, Patch |-> NoPatch]

\* Nothing has been written.
NoResponse == Written(0)

\* http.Error
HttpError(code) == Written(code)

\* json.Marshal of an AdmissionReview that holds strings, a bool and a byte
\* slice has no failing input.
MarshalErrors == {FALSE}

\* Mutant: the encoding is always taken to have failed.
jsonOKResponse_failed(rsp, err) == HttpError(StatusInternalServerError)

jsonOKResponse(rsp, err) ==
    IF err THEN HttpError(StatusInternalServerError)
    ELSE [status |-> StatusOK, review |-> TRUE,
          TypeMeta |-> rsp.TypeMeta, UID |-> rsp.Response.UID,
          Allowed |-> rsp.Response.Allowed,
          PatchType |-> rsp.Response.PatchType, Patch |-> rsp.Response.Patch]

\* Mutant: the method is not checked.
Boundary_anyMethod(r) ==
    IF ~r.bodyOK THEN "BadRequest"
    ELSE IF ~r.hasRequest THEN "panic"
    ELSE IF r.operation # "CREATE" THEN "BadRequest"
    ELSE IF ~r.podOK THEN "BadRequest"
    ELSE "decide"

\* Mutant: the operation is not checked.
Boundary_anyOperation(r) ==
    IF r.method # "POST" THEN "MethodNotAllowed"
    ELSE IF ~r.bodyOK THEN "BadRequest"
    ELSE IF ~r.hasRequest THEN "panic"
    ELSE IF ~r.podOK THEN "BadRequest"
    ELSE "decide"

\* handleInjectDriverReadySelector up to the decision: "decide", "panic" (the
\* nil admrev.Request is dereferenced; net/http recovers and closes the
\* connection with nothing written) or the status of the http.Error.
Boundary(r) ==
    IF r.method # "POST" THEN "MethodNotAllowed"
    ELSE IF ~r.bodyOK THEN "BadRequest"
    ELSE IF ~r.hasRequest THEN "panic"
    ELSE IF r.operation # "CREATE" THEN "BadRequest"
    ELSE IF ~r.podOK THEN "BadRequest"
    ELSE "decide"

\* Mutant: only a mutated pod is allowed.
AdmissionResponse_deny(mutate) ==
    [Allowed   |-> mutate,
     PatchType |-> IF mutate THEN JSONPatch ELSE NoPatchType,
     Patch     |-> IF mutate THEN driverReadySelectorPodPatch ELSE NoPatch]

\* Mutant: the patch is never attached.
AdmissionResponse_nopatch(mutate) ==
    [Allowed |-> TRUE, PatchType |-> NoPatchType, Patch |-> NoPatch]

\* admresp as built at server.go:160 and completed at 168-171.
AdmissionResponse(mutate) ==
    [Allowed   |-> TRUE,
     PatchType |-> IF mutate THEN JSONPatch ELSE NoPatchType,
     Patch     |-> IF mutate THEN driverReadySelectorPodPatch ELSE NoPatch]

\* Mutant: the review is answered with the type metadata of the handler's
\* own API version and without the request's UID.
AdmissionReview_fresh(r, admresp) ==
    [TypeMeta |-> ReviewV1.typeMeta,
     Response |-> [UID |-> ""] @@ admresp]

\* server.go:160-161 and 177-180: the response takes the request's UID and
\* the review that is encoded takes the type metadata of the one received.
AdmissionReview(r, admresp) ==
    [TypeMeta |-> r.env.typeMeta,
     Response |-> [UID |-> r.env.uid] @@ admresp]

podHasDriverReadyLabelSelectorOrAffinity(pod) == pod.ready # "none"

\* Mutant: the pod's own preference is not looked at.
AlreadyHasPreference_never(pod) == FALSE

\* server.go:164: the condition under which the decision is skipped.
AlreadyHasPreference(pod) == podHasDriverReadyLabelSelectorOrAffinity(pod)

\* handleHealthz: 200 with the fixed body "OK".
handleHealthz(r) == Written(StatusOK)

ServeHealthz ==
    /\ ~crashed /\ pc = "idle"
    /\ \E r \in HealthRequests :
         /\ req' = r
         /\ resp' = handleHealthz(r)
    /\ pc' = "done"
    /\ UNCHANGED <<vi, key, cs, ret, obs>>
    /\ UNCHANGED <<classes, m, crashed>> /\ UNCHANGED watcherVars /\ UNCHANGED seqVars

\* The request is rejected at the boundary.
ServeReject ==
    /\ ~crashed /\ pc = "idle"
    /\ \E r \in Requests :
         /\ Boundary(r) \in {"MethodNotAllowed", "BadRequest"}
         /\ req' = r
         /\ resp' = HttpError(IF Boundary(r) = "MethodNotAllowed"
                              THEN StatusMethodNotAllowed ELSE StatusBadRequest)
    /\ pc' = "done"
    /\ UNCHANGED <<vi, key, cs, ret, obs>>
    /\ UNCHANGED <<classes, m, crashed>> /\ UNCHANGED watcherVars /\ UNCHANGED seqVars

\* The review has no request member.
ServePanic ==
    /\ ~crashed /\ pc = "idle"
    /\ \E r \in Requests :
         /\ Boundary(r) = "panic"
         /\ req' = r
    /\ resp' = NoResponse
    /\ pc' = "done"
    /\ UNCHANGED <<vi, key, cs, ret, obs>>
    /\ UNCHANGED <<classes, m, crashed>> /\ UNCHANGED watcherVars /\ UNCHANGED seqVars

\* server.go:164-165: the pod already has the driver ready preference.
ServeSkip ==
    /\ ~crashed /\ pc = "idle"
    /\ \E r \in Requests, err \in MarshalErrors :
         /\ Boundary(r) = "decide"
         /\ AlreadyHasPreference(r.pod)
         /\ req' = r
         /\ resp' = jsonOKResponse(AdmissionReview(r, AdmissionResponse(FALSE)), err)
    /\ pc' = "done"
    /\ UNCHANGED <<vi, key, cs, ret, obs>>
    /\ UNCHANGED <<classes, m, crashed>> /\ UNCHANGED watcherVars /\ UNCHANGED seqVars

\* server.go:167: podHasCsiGCSVolume is called with h.driverStorageClasses, a
\* struct value: the callee gets a copy of the mutex as it is now, and the
\* same map.
ServeCall ==
    /\ ~crashed /\ pc = "idle"
    /\ \E r \in Requests :
         /\ Boundary(r) = "decide"
         /\ ~AlreadyHasPreference(r.pod)
         /\ req' = r
    /\ cs' = m
    /\ vi' = 1
    /\ obs' = {"called"}
    /\ pc' = "loop"
    /\ UNCHANGED <<key, ret, resp>>
    /\ UNCHANGED <<classes, m, crashed>> /\ UNCHANGED watcherVars /\ UNCHANGED seqVars

\* ------------------------------------------------- podHasCsiGCSVolume
\* The volumes are inspected in order; the first one that qualifies decides.
Volume == req.pod.volumes[vi]

\* server.go:167-180: the decision is encoded and written.
Answer(mutate) ==
    /\ \E err \in MarshalErrors :
         resp' = jsonOKResponse(AdmissionReview(req, AdmissionResponse(mutate)), err)
    /\ pc' = "done"

\* Every volume was inspected and none qualified.
LoopEnd ==
    /\ ~crashed /\ pc = "loop" /\ vi > Len(req.pod.volumes)
    /\ Answer(FALSE)
    /\ UNCHANGED <<req, vi, key, cs, ret, obs>>
    /\ UNCHANGED <<classes, m, crashed>> /\ UNCHANGED watcherVars /\ UNCHANGED seqVars

\* A volume that names a CSI driver directly.
LoopCSI ==
    /\ ~crashed /\ pc = "loop" /\ vi <= Len(req.pod.volumes)
    /\ Volume.type = "CSI"
    /\ IF Volume.driver = driverName
       THEN Answer(TRUE) /\ UNCHANGED vi
       ELSE vi' = vi + 1 /\ UNCHANGED <<pc, resp>>
    /\ UNCHANGED <<req, key, cs, ret, obs>>
    /\ UNCHANGED <<classes, m, crashed>> /\ UNCHANGED watcherVars /\ UNCHANGED seqVars

\* A volume that names a claim: the claim is read from the API server. The
\* read fails, or yields the claim's storage class name (DefaultClass when
\* the claim names none).
LoopClaim ==
    /\ ~crashed /\ pc = "loop" /\ vi <= Len(req.pod.volumes)
    /\ Volume.type = "PVC"
    /\ \/ /\ obs' = obs \cup {"lookupFailed"}
          /\ vi' = vi + 1
          /\ UNCHANGED <<pc, key>>
       \/ /\ \E c \in Keys : key' = c
          /\ pc' = "has"
          /\ UNCHANGED <<vi, obs>>
    /\ UNCHANGED <<req, cs, ret, resp>>
    /\ UNCHANGED <<classes, m, crashed>> /\ UNCHANGED watcherVars /\ UNCHANGED seqVars

\* ----------------------------------- has, on the callee's copy of the set
\* s.m.RLock(): s is the copy, so this is the copy's mutex. A copy taken
\* while the watcher held the lock is write-locked and nothing unlocks it.
hasRLock ==
    /\ ~crashed /\ pc = "has"
    /\ CanRLock(cs)
    /\ cs' = RLock(cs)
    /\ pc' = "reading"
    /\ UNCHANGED <<req, vi, key, ret, obs, resp>>
    /\ UNCHANGED <<classes, m, crashed>> /\ UNCHANGED watcherVars /\ UNCHANGED seqVars

\* The map access overlaps a map write of the watcher.
Racing == wpc = "writing"

\* What the cache holds for key when it is read.
Observed ==
    IF Racing /\ Head(wops).className = key THEN "inflight"
    ELSE IF key \in classes THEN "present" ELSE "absent"

\* Mutant: the read inserts the key it looks up.
hasRead_inserts ==
    /\ ~crashed /\ pc = "reading"
    /\ IF Racing THEN ret' \in BOOLEAN ELSE ret' = has(classes, key)
    /\ cs' = RUnlock(cs)
    /\ obs' = obs \cup {"absent"}
    /\ pc' = "hasret"
    /\ classes' = classes \cup {key}
    /\ UNCHANGED <<req, vi, key, resp>>
    /\ UNCHANGED <<m, crashed>> /\ UNCHANGED watcherVars /\ UNCHANGED seqVars

\* _, exist := s.classes[className], then the deferred RUnlock. A map read
\* that races with a map write is undefined: it yields either value.
hasRead ==
    /\ ~crashed /\ pc = "reading"
    /\ IF Racing THEN ret' \in BOOLEAN ELSE ret' = has(classes, key)
    /\ cs' = RUnlock(cs)
    /\ obs' = obs \cup {Observed}
                  \cup (IF Racing THEN {"raced"} ELSE {})
                  \cup (IF key = DefaultClass /\ Observed = "present"
                        THEN {"defaultPresent"} ELSE {})
    /\ pc' = "hasret"
    /\ UNCHANGED <<req, vi, key, resp>>
    /\ UNCHANGED <<classes, m, crashed>> /\ UNCHANGED watcherVars /\ UNCHANGED seqVars

\* ... or the runtime detects it: fatal error, concurrent map read and map
\* write; the process exits.
hasFatal ==
    /\ ~crashed /\ pc = "reading"
    /\ Racing
    /\ crashed' = TRUE
    /\ UNCHANGED handlerVars /\ UNCHANGED seqVars
    /\ UNCHANGED <<classes, m>> /\ UNCHANGED watcherVars /\ UNCHANGED seqVars

\* podHasCsiGCSVolume uses what has returned.
LoopHas ==
    /\ ~crashed /\ pc = "hasret"
    /\ IF ret
       THEN Answer(TRUE) /\ UNCHANGED vi
       ELSE vi' = vi + 1 /\ pc' = "loop" /\ UNCHANGED resp
    /\ UNCHANGED <<req, key, cs, ret, obs>>
    /\ UNCHANGED <<classes, m, crashed>> /\ UNCHANGED watcherVars /\ UNCHANGED seqVars

\* The handler returns; the goroutine serves the next request.
Return ==
    /\ ~crashed /\ pc = "done"
    /\ pc' = "idle"
    /\ req' = NoRequest
    /\ resp' = NoResponse
    /\ obs' = {}
    /\ vi' = 1
    /\ key' = DefaultClass
    /\ ret' = FALSE
    /\ cs' = FreeMutex
    /\ UNCHANGED <<classes, m, crashed>> /\ UNCHANGED watcherVars /\ UNCHANGED seqVars

Handler == ServeHealthz \/ ServeReject \/ ServePanic \/ ServeSkip \/ ServeCall
           \/ LoopEnd \/ LoopCSI \/ LoopClaim
           \/ hasRLock \/ hasRead \/ hasFatal \/ LoopHas \/ Return

\* ---------------------------------------------------------- the program
\* NewServer: an empty map behind a free mutex; the informer has seen nothing.
NoObject == [name |-> DefaultClass, provisioner |-> "", isDefault |-> FALSE, ok |-> FALSE]
NoEvent == [kind |-> "none", obj |-> NoObject, before |-> {}]

Deliveries == {"first", "second"}
NoDup == [obj |-> NoObject, start |-> {}, sent |-> [d \in Deliveries |-> "none"]]

\* Everything but the keys and the histories, as NewServer leaves it.
Constructed ==
    /\ m = FreeMutex
    /\ store = [n \in ClassNames |-> Absent]
    /\ wpc = "idle"
    /\ wops = <<>>
    /\ crashed = FALSE
    /\ pc = "idle"
    /\ req = NoRequest
    /\ vi = 1
    /\ key = DefaultClass
    /\ cs = FreeMutex
    /\ ret = FALSE
    /\ obs = {}
    /\ resp = NoResponse

Init ==
    /\ classes = {}
    /\ lastAdd = {}
    /\ ev = NoEvent
    /\ dup = NoDup
    /\ Constructed

Next == Watcher \/ Handler

Spec == Init /\ [][Next]_vars

\* ------------------------------------------- fair scheduling
\* The Go scheduler runs every goroutine that can run: a request that was
\* accepted keeps taking its steps while one is possible, and an add or
\* remove that was called takes the lock when it is free and completes.
\* Nothing obliges the cluster to send events or clients to send requests.
FairSpec ==
    /\ Spec
    /\ WF_vars(pc # "idle" /\ Handler)
    /\ WF_vars(SetLock \/ SetUnlock)

\* ------------------------------------------- the watcher on its own
\* The events of WatchAdd, WatchUpdate and WatchDelete, each remembered
\* together with the keys it found, and the add and remove calls they make;
\* no request is served. The keys start as any set that earlier events can
\* have left behind.
Deliver(kind, stc, st) ==
    /\ ~crashed /\ WatcherIdle
    /\ store' = [store EXCEPT ![stc.name] = st]
    /\ wops' = Callback(kind, stc)
    /\ ev' = [kind |-> kind, obj |-> stc, before |-> classes]
    /\ UNCHANGED <<classes, m, wpc, lastAdd, crashed, dup>>
    /\ UNCHANGED handlerVars

OnAdd ==
    \E n \in ClassNames, p \in Provisioners, d \in BOOLEAN :
        /\ ~store[n].present
        /\ Deliver("add", [name |-> n, provisioner |-> p, isDefault |-> d, ok |-> TRUE],
                   Stored(p, d))

OnUpdate ==
    \E n \in ClassNames, p \in Provisioners, d \in BOOLEAN :
        /\ store[n].present
        /\ Deliver("update", [name |-> n, provisioner |-> p, isDefault |-> d, ok |-> TRUE],
                   Stored(p, d))

OnDelete ==
    \E n \in ClassNames, k \in BOOLEAN :
        /\ store[n].present
        /\ Deliver("delete", [name |-> n, provisioner |-> store[n].provisioner,
                              isDefault |-> store[n].isDefault, ok |-> k],
                   Absent)

EventInit ==
    /\ classes \in SUBSET Keys
    /\ lastAdd = classes
    /\ ev = NoEvent
    /\ dup = NoDup
    /\ Constructed

EventNext == OnAdd \/ OnUpdate \/ OnDelete \/ SetLock \/ SetUnlock

EventSpec == EventInit /\ [][EventNext]_vars

\* ------------------------------------------- a duplicated delivery
\* The add and the delete of one storage class are each delivered twice,
\* every delete after its own add, the two pairs in any order.
DupAdd(d) ==
    /\ dup.sent[d] = "none"
    /\ classes' = Run(classes, Callback("add", dup.obj))
    /\ lastAdd' = classes'
    /\ dup' = [dup EXCEPT !.sent[d] = "added"]
    /\ UNCHANGED <<m, crashed, ev, store, wpc, wops>>
    /\ UNCHANGED handlerVars

DupDelete(d) ==
    /\ dup.sent[d] = "added"
    /\ classes' = Run(classes, Callback("delete", dup.obj))
    /\ lastAdd' = classes'
    /\ dup' = [dup EXCEPT !.sent[d] = "deleted"]
    /\ UNCHANGED <<m, crashed, ev, store, wpc, wops>>
    /\ UNCHANGED handlerVars

DupInit ==
    /\ classes \in SUBSET Keys
    /\ lastAdd = classes
    /\ ev = NoEvent
    /\ \E stc \in Objects :
         /\ stc.ok
         /\ dup = [obj |-> stc, start |-> classes, sent |-> [d \in Deliveries |-> "none"]]
    /\ Constructed

DupNext == \E d \in Deliveries : DupAdd(d) \/ DupDelete(d)

DupSpec == DupInit /\ [][DupNext]_vars

\* ================================================================ claims
\* The request in hand reached the decision (it is a well-formed create).
Decided == pc = "done" /\ WellFormed(req)

Patched == resp.Patch = driverReadySelectorPodPatch /\ resp.PatchType = JSONPatch

Unpatched == resp.Patch = NoPatch /\ resp.PatchType = NoPatchType

\* The pod has a volume that names the driver directly.
HasDirect(pod) ==
    \E i \in DOMAIN pod.volumes :
        pod.volumes[i].type = "CSI" /\ pod.volumes[i].driver = driverName

\* A cache read was made for this request.
CacheRead == obs \cap {"present", "absent", "inflight"} # {}

\* C1: between the calls of any sequence of add and remove calls, the map
\* holds exactly the keys whose last call was an add, and a has() made then
\* returns true exactly for those keys: no update is lost, whatever the
\* reader did meanwhile.
C1_NetEffect ==
    /\ [](wpc = "idle" => classes = lastAdd)
    /\ [][(pc = "reading" /\ pc' = "hasret" /\ wpc = "idle")
            => (ret' = (key \in lastAdd))]_vars

\* C1 witness: after add(1), add(""), remove(1) a has("") has returned true.
C1_Witness ==
    /\ pc = "hasret" /\ "raced" \notin obs /\ key = DefaultClass /\ ret
    /\ wpc = "idle" /\ classes = {DefaultClass} /\ ~store[1].present

\* C2: a cache read made for a request never overlaps a watcher add or
\* remove: while the handler is between RLock and RUnlock, the write side of
\* the set's mutex is not held.
C2_ReadExcludesWrite == ~(pc = "reading" /\ m.w)

\* C3: once the watcher has processed the events delivered so far, a class
\* name is in the cache exactly when the last object observed for it exists
\* and has the driver as provisioner.
C3_MembershipFollowsLastEvent ==
    WatcherIdle =>
        \A n \in ClassNames :
            (n \in classes) <=> (store[n].present /\ store[n].provisioner = driverName)

\* C4: every admission response written is a 200 with Allowed = TRUE; it
\* differs from another only in carrying the patch (with its type) or not.
C4_AlwaysAllowed ==
    (pc = "done" /\ resp.review) =>
        /\ resp.Allowed
        /\ resp.status = StatusOK
        /\ Patched \/ Unpatched

\* C4 witness: an admission response without patch, written after a cache
\* read that found the class absent.
C4_Witness ==
    /\ pc = "done" /\ resp.review /\ resp.Allowed /\ Unpatched
    /\ "absent" \in obs

\* C5: a create request for a pod that already names the driver-ready label
\* is answered 200 without patch, and podHasCsiGCSVolume is never entered for
\* it.
C5_LabelledPodSkipped ==
    (pc # "idle" /\ WellFormed(req) /\ req.pod.ready # "none") =>
        /\ pc = "done"
        /\ resp.status = StatusOK /\ resp.Allowed /\ Unpatched
        /\ "called" \notin obs

\* C5 witness: such a pod, with a direct driver volume and a claim, answered
\* while the cache holds the default-class key.
C5_Witness ==
    /\ Decided /\ req.pod.ready = "affinity" /\ HasDirect(req.pod)
    /\ \E i \in DOMAIN req.pod.volumes : req.pod.volumes[i].type = "PVC"
    /\ DefaultClass \in classes
    /\ Unpatched

\* C6: every answer to a create request for a pod without the label and with
\* a volume naming the driver directly carries the patch.
C6_DirectVolumePatched ==
    (Decided /\ req.pod.ready = "none" /\ HasDirect(req.pod)) =>
        resp.status = StatusOK /\ resp.Allowed /\ Patched

\* C6 witness: the direct volume comes second, after a claim that was read
\* from an empty cache.
C6_Witness ==
    /\ Decided /\ req.pod.ready = "none" /\ Len(req.pod.volumes) = 2
    /\ req.pod.volumes[1].type = "PVC" /\ HasDirect(req.pod)
    /\ "absent" \in obs /\ classes = {}
    /\ Patched

\* C7: a create request for a pod without direct driver volume, every cache
\* read of which found the class absent, is answered without patch.
C7_AbsentClassNotPatched ==
    (Decided /\ req.pod.ready = "none" /\ ~HasDirect(req.pod)
       /\ "present" \notin obs /\ "inflight" \notin obs) => Unpatched

\* C8: a create request for a pod without the label, one cache read of which
\* found the default-class key present, is answered with the patch.
C8_DefaultClassPatched ==
    (Decided /\ "defaultPresent" \in obs) => Patched

\* C9: a failed claim lookup never changes the status: the request is
\* answered 200 with Allowed = TRUE, and with the patch only if the pod has a
\* direct driver volume or another claim was resolved and looked up in the
\* cache.
C9_LookupFailureFallsBack ==
    (pc = "done" /\ "lookupFailed" \in obs) =>
        /\ resp.status = StatusOK /\ resp.review /\ resp.Allowed
        /\ Patched \/ Unpatched
        /\ Patched => (HasDirect(req.pod) \/ CacheRead)

\* C9 witness: both claims of a pod failed to resolve and the answer carries
\* no patch although the cache holds every key.
C9_Witness ==
    /\ pc = "done" /\ "lookupFailed" \in obs /\ ~CacheRead
    /\ Len(req.pod.volumes) = 2
    /\ \A i \in DOMAIN req.pod.volumes : req.pod.volumes[i].type = "PVC"
    /\ classes = Keys
    /\ resp.status = StatusOK /\ Unpatched

\* C10: a POST whose body does not decode, or whose request is not a create,
\* or whose object does not decode as a pod, is answered 400 with no
\* admission response, and the decision is not entered.
C10_BadRequest ==
    (pc # "idle" /\ req.path = MutatePath /\ req.method = "POST"
       /\ (~req.bodyOK \/ (req.hasRequest /\ (req.operation # "CREATE" \/ ~req.podOK)))) =>
        /\ pc = "done"
        /\ resp = HttpError(StatusBadRequest)
        /\ ~resp.review
        /\ "called" \notin obs

\* C10 witness: an update request with a decodable pod, answered 400.
C10_Witness ==
    /\ pc = "done" /\ req.path = MutatePath /\ req.method = "POST" /\ req.bodyOK /\ req.hasRequest
    /\ req.operation = "UPDATE" /\ req.podOK
    /\ resp.status = StatusBadRequest

\* C11 (as claimed): a request to the admission endpoint whose method is not
\* POST is answered 400.
C11_NonPostIsBadRequest ==
    (pc # "idle" /\ req.path = MutatePath /\ req.method # "POST") =>
        resp.status = StatusBadRequest

\* C11 (amended): a request to the admission endpoint whose method is not
\* POST is answered 405, with no admission response, and the decision is not
\* entered.
C11_NonPostIsMethodNotAllowed ==
    (pc # "idle" /\ req.path = MutatePath /\ req.method # "POST") =>
        /\ pc = "done"
        /\ resp = HttpError(StatusMethodNotAllowed)
        /\ ~resp.review
        /\ "called" \notin obs

\* C11 witness: a GET that carries a well-formed create review, answered 405.
C11_Witness ==
    /\ pc = "done" /\ req.path = MutatePath /\ req.method = "GET"
    /\ req.bodyOK /\ req.hasRequest /\ req.operation = "CREATE" /\ req.podOK
    /\ resp.status = StatusMethodNotAllowed

\* C12: no step of a request handler (probe, rejection, skip, decision, cache
\* read, answer) changes the map or the set's mutex; the map changes only
\* when an add or remove of the watcher completes.
C12_RequestsDoNotWrite ==
    /\ [][(pc' # pc \/ req' # req \/ resp' # resp \/ obs' # obs \/ cs' # cs)
            => (classes' = classes /\ m' = m)]_vars
    /\ [][classes' # classes => (wpc = "writing" /\ wpc' = "idle")]_vars

\* C12 witness: a body that does not decode was answered 400 while the cache
\* holds the class and the default-class key.
C12_Witness ==
    /\ pc = "done" /\ req.path = MutatePath /\ req.method = "POST" /\ ~req.bodyOK
    /\ resp.status = StatusBadRequest
    /\ classes = Keys

\* C13: once both adds and both deletes of the duplicated delivery were
\* handled, in whichever order, the keys are what one add followed by one
\* delete makes of the starting keys; and on any keys reached, adding a key
\* twice is adding it once and removing an absent key changes nothing.
C13_DuplicateDelivery ==
    /\ (\A d \in Deliveries : dup.sent[d] = "deleted") =>
          classes = Run(Run(dup.start, AddFunc(dup.obj)), DeleteFunc(dup.obj))
    /\ \A k \in Keys :
          /\ add(add(classes, k), k) = add(classes, k)
          /\ (k \notin classes => remove(classes, k) = classes)

\* C13 witness: both pairs of a default-annotated driver class were handled
\* on a cache that held its name and the default-class key.
C13_Witness ==
    /\ \A d \in Deliveries : dup.sent[d] = "deleted"
    /\ dup.obj.provisioner = driverName /\ dup.obj.isDefault
    /\ dup.start = {dup.obj.name, DefaultClass}
    /\ classes = dup.start \ {dup.obj.name, DefaultClass}

\* The last event was of one of these kinds, for a storage class, and its
\* callback has returned.
Handled(kinds) == WatcherIdle /\ ev.kind \in kinds /\ ev.obj.ok

\* C15: after an add or an update of a class provisioned by the driver, the
\* keys are the keys before the event plus the class's name, plus the
\* default-class key when the class is annotated as default, and nothing else
\* was added or removed.
C15_AddOrUpdateOfDriverClass ==
    (Handled({"add", "update"}) /\ ev.obj.provisioner = driverName) =>
        classes = ev.before \cup {ev.obj.name}
                    \cup (IF ev.obj.isDefault THEN {DefaultClass} ELSE {})

\* C15 witness: an update of a default-annotated driver class put its name
\* and the default-class key into an empty cache.
C15_Witness ==
    /\ Handled({"update"}) /\ ev.obj.provisioner = driverName /\ ev.obj.isDefault
    /\ ev.before = {}
    /\ classes = {ev.obj.name, DefaultClass}

\* C16: after an update whose new object has another provisioner the keys are
\* exactly the keys before it; and no update removes a key.
C16_UpdateNeverEvicts ==
    /\ (Handled({"update"}) /\ ev.obj.provisioner # driverName) => classes = ev.before
    /\ Handled({"update"}) => ev.before \subseteq classes

\* C16 witness: a cached class was updated to another provisioner and its
\* name and the default-class key are still cached.
C16_Witness ==
    /\ Handled({"update"}) /\ ev.obj.provisioner # driverName
    /\ ev.before = {ev.obj.name, DefaultClass}
    /\ classes = ev.before

\* C17: after a delete of a class provisioned by the driver, the keys are the
\* keys before it minus the class's name, minus the default-class key when
\* the deleted class was annotated as default; after a delete of a class of
\* another provisioner the keys are unchanged.
C17_Delete ==
    Handled({"delete"}) =>
        classes = IF ev.obj.provisioner = driverName
                  THEN ev.before \ ({ev.obj.name}
                         \cup (IF ev.obj.isDefault THEN {DefaultClass} ELSE {}))
                  ELSE ev.before

\* C17 witness: the delete of a default-annotated driver class emptied a
\* cache that held its name and the default-class key.
C17_Witness ==
    /\ Handled({"delete"}) /\ ev.obj.provisioner = driverName /\ ev.obj.isDefault
    /\ ev.before = {ev.obj.name, DefaultClass}
    /\ classes = {}

\* C14: under fair scheduling every admission request that has started is
\* eventually answered, whatever the watcher does; and the watcher holds the
\* set's lock only inside an add or remove, never while it waits for an event.
C14_EveryRequestAnswered ==
    /\ (pc \notin {"idle", "done"}) ~> (pc = "done")
    /\ [](WatcherIdle => ~m.w)

\* C18: every 200 written by the admission handler echoes the UID and the
\* type metadata of the request it answers, has PatchType JSONPatch exactly
\* when it carries a patch, and a patch it carries is the one patch built by
\* NewServer.
C18_ResponseEchoesRequest ==
    (pc = "done" /\ req.path = MutatePath /\ resp.status = StatusOK) =>
        /\ resp.review
        /\ resp.UID = req.env.uid
        /\ resp.TypeMeta = req.env.typeMeta
        /\ (resp.PatchType = JSONPatch) <=> (resp.Patch # NoPatch)
        /\ resp.PatchType \in {JSONPatch, NoPatchType}
        /\ resp.Patch \in {NoPatch, driverReadySelectorPodPatch}

\* C18 witness: a v1beta1 review with its own UID was answered 200 with the
\* patch.
C18_Witness ==
    /\ pc = "done" /\ req.path = MutatePath /\ resp.status = StatusOK
    /\ req.env = ReviewV1beta1
    /\ resp.UID = ReviewV1beta1.uid /\ resp.TypeMeta = ReviewV1beta1.typeMeta
    /\ resp.PatchType = JSONPatch /\ resp.Patch = driverReadySelectorPodPatch

\* C19: whenever the watcher has handled every event it received, the
\* default-class key is cached exactly when some storage class that now
\* exists is provisioned by the driver and annotated as default.
C19_SentinelConsistent ==
    WatcherIdle =>
        ((DefaultClass \in classes) <=>
            \E n \in ClassNames : /\ store[n].present
                                  /\ store[n].provisioner = driverName
                                  /\ store[n].isDefault)

\* C20: a POST to the admission endpoint whose body decodes as a review,
\* with or without a request member, ends with a response written, of status
\* 200, 400 or 500.
C20_DecodedPostIsAnswered ==
    (pc = "done" /\ req.path = MutatePath /\ req.method = "POST" /\ req.bodyOK) =>
        resp.status \in {StatusOK, StatusBadRequest, StatusInternalServerError}

====
